---------------------------- MODULE Spec2Model ----------------------------
(***************************************************************************)
(* A-Frame: the tracked-controls component (button / axis state machine)   *)
(* of src/components/tracked-controls.js and the property type registry    *)
(* of src/core/propertyTypes.js.                                           *)
(***************************************************************************)
EXTENDS Integers, Sequences, FiniteSets, TLC

(***************************************************************************)
(* Bounds of the model.                                                    *)
(***************************************************************************)
\* The values of an analog button are 0..MaxValue: 0 is released, MaxValue
\* is fully pressed.
MaxValue == 1
\* The strings of the round trips have at most MaxLen characters.
MaxLen == 2
\* The arrays of the round trips have at most MaxItems members.
MaxItems == 2
\* The integers of the round trips are -MaxInt..MaxInt.
MaxInt == 2
\* A raw string has at most MaxDepth url(...) wrappers, one inside the other.
MaxDepth == 2

(***************************************************************************)
(* State of one tracked-controls component instance and of what it reads.  *)
(***************************************************************************)
VARIABLES
  buttonStates,   \* this.buttonStates: button index -> {pressed, touched, value}
  axis,           \* this.axis: the stored axis vector
  changedAxes,    \* this.changedAxes: the "changed" vector of the axismove payload
  controller,     \* this.controller: the bound controller, or NoController
  data,           \* this.data: the component's properties
  visible,        \* this.el.object3D.visible
  pose,           \* this.pose
  listening,      \* whether updateController listens to 'controllersupdated'
  sysControllers, \* this.system.controllers
  op,             \* the handler that ran last, with what it read
  emitted,        \* the events that handler emitted, in order
  lastDown,       \* the buttons whose last press event was buttondown
  lastTouched,    \* the buttons whose last touch event was touchstart
  propertyTypes,  \* propertyTypes: type name -> descriptor
  call            \* the last call of a function of src/core/propertyTypes.js

ctlVars == <<buttonStates, axis, changedAxes, controller, data, visible, pose,
             listening, sysControllers, op, emitted, lastDown, lastTouched>>

typeVars == <<propertyTypes, call>>

vars == <<ctlVars, typeVars>>

(***************************************************************************)
(* Event names (EVENTS).                                                   *)
(***************************************************************************)
EVENTS == [AXISMOVE |-> "axismove", BUTTONCHANGED |-> "buttonchanged",
           BUTTONDOWN |-> "buttondown", BUTTONUP |-> "buttonup",
           TOUCHSTART |-> "touchstart", TOUCHEND |-> "touchend"]

\* A controller: an input source with its handedness, its first profile,
\* whether it has a gamepad (with the kind of each button and the number of
\* axes) and whether it has a hand.
NoController == [name |-> "none", handedness |-> "none", profile |-> "none",
                 gamepad |-> FALSE, hand |-> FALSE, buttons |-> <<>>, axes |-> 0]
NoState == [pressed |-> FALSE, touched |-> FALSE, value |-> -1]
NoPose == "null"

\* The payload of a button event: {id, state}, the state as it is when the
\* event is emitted (the payload holds the stored state object itself).
ButtonEvent(name, id, state) ==
  [name |-> name, id |-> id, state |-> state, axis |-> <<>>, changed |-> <<>>]

\* The payload of axismove: {axis, changed}.
AxisEvent(ax, changed) ==
  [name |-> EVENTS.AXISMOVE, id |-> -1, state |-> NoState, axis |-> ax,
   changed |-> changed]

(***************************************************************************)
(* handlePress, handleTouch, handleValue: each takes the component's       *)
(* mutable part c = [buttonStates, axis, changedAxes, emitted] and returns *)
(* [c |-> the part after the call, ret |-> the value returned].            *)
(***************************************************************************)
\* Mutant of handlePress: the event is emitted and the stored state is left
\* as it was.
handlePressNoStore(c, id, buttonState) ==
  LET previousButtonState == c.buttonStates[id]
      evtName == IF buttonState.pressed THEN EVENTS.BUTTONDOWN ELSE EVENTS.BUTTONUP
  IN IF buttonState.pressed = previousButtonState.pressed
     THEN [c |-> c, ret |-> FALSE]
     ELSE [c |-> [c EXCEPT
                    !.emitted = Append(@, ButtonEvent(evtName, id, previousButtonState))],
           ret |-> TRUE]

\* Mutant of handlePress: the stored state is updated before the event is
\* emitted.
handlePressStoreFirst(c, id, buttonState) ==
  LET previousButtonState == c.buttonStates[id]
      evtName == IF buttonState.pressed THEN EVENTS.BUTTONDOWN ELSE EVENTS.BUTTONUP
  IN IF buttonState.pressed = previousButtonState.pressed
     THEN [c |-> c, ret |-> FALSE]
     ELSE [c |-> [c EXCEPT
                    !.emitted = Append(@, ButtonEvent(evtName, id,
                                  [previousButtonState EXCEPT
                                     !.pressed = buttonState.pressed])),
                    !.buttonStates[id].pressed = buttonState.pressed],
           ret |-> TRUE]

handlePress(c, id, buttonState) ==
  LET previousButtonState == c.buttonStates[id]
      evtName == IF buttonState.pressed THEN EVENTS.BUTTONDOWN ELSE EVENTS.BUTTONUP
  IN IF buttonState.pressed = previousButtonState.pressed
     THEN [c |-> c, ret |-> FALSE]
     ELSE [c |-> [c EXCEPT
                    !.emitted = Append(@, ButtonEvent(evtName, id, previousButtonState)),
                    !.buttonStates[id].pressed = buttonState.pressed],
           ret |-> TRUE]

handleTouch(c, id, buttonState) ==
  LET previousButtonState == c.buttonStates[id]
      evtName == IF buttonState.touched THEN EVENTS.TOUCHSTART ELSE EVENTS.TOUCHEND
  IN IF buttonState.touched = previousButtonState.touched
     THEN [c |-> c, ret |-> FALSE]
     ELSE [c |-> [c EXCEPT
                    !.emitted = Append(@, ButtonEvent(evtName, id, previousButtonState)),
                    !.buttonStates[id].touched = buttonState.touched],
           ret |-> TRUE]

\* Mutant of handleValue: the value is stored and no change is reported.
handleValueSilent(c, id, buttonState) ==
  LET previousButtonState == c.buttonStates[id]
  IN IF buttonState.value = previousButtonState.value
     THEN [c |-> c, ret |-> FALSE]
     ELSE [c |-> [c EXCEPT !.buttonStates[id].value = buttonState.value],
           ret |-> FALSE]

\* Mutant of handleValue: the change is reported and the value is not stored.
handleValueNoStore(c, id, buttonState) ==
  LET previousButtonState == c.buttonStates[id]
  IN IF buttonState.value = previousButtonState.value
     THEN [c |-> c, ret |-> FALSE]
     ELSE [c |-> c, ret |-> TRUE]

handleValue(c, id, buttonState) ==
  LET previousButtonState == c.buttonStates[id]
  IN IF buttonState.value = previousButtonState.value
     THEN [c |-> c, ret |-> FALSE]
     ELSE [c |-> [c EXCEPT !.buttonStates[id].value = buttonState.value],
           ret |-> TRUE]

\* Mutant of handleButton: the touch is checked before the press.
handleButtonTouchFirst(c, id, buttonState) ==
  LET r1 == handleTouch(c, id, buttonState)
      r2 == handlePress(r1.c, id, buttonState)
      r3 == handleValue(r2.c, id, buttonState)
      changed == r1.ret \/ r2.ret \/ r3.ret
  IN IF ~changed
     THEN [c |-> r3.c, ret |-> FALSE]
     ELSE [c |-> [r3.c EXCEPT
                    !.emitted = Append(@, ButtonEvent(EVENTS.BUTTONCHANGED, id,
                                                      r3.c.buttonStates[id]))],
           ret |-> TRUE]

\* handleButton: the three checks are combined with |, so all three run.
handleButton(c, id, buttonState) ==
  LET r1 == handlePress(c, id, buttonState)
      r2 == handleTouch(r1.c, id, buttonState)
      r3 == handleValue(r2.c, id, buttonState)
      changed == r1.ret \/ r2.ret \/ r3.ret
  IN IF ~changed
     THEN [c |-> r3.c, ret |-> FALSE]
     ELSE [c |-> [r3.c EXCEPT
                    !.emitted = Append(@, ButtonEvent(EVENTS.BUTTONCHANGED, id,
                                                      r3.c.buttonStates[id]))],
           ret |-> TRUE]

\* previousAxis[i] !== controllerAxes[i], i a 0-based index: an index past the
\* end of previousAxis reads undefined, which differs from every number.
AxisDiffers(previousAxis, controllerAxes, i) ==
  IF i + 1 > Len(previousAxis) THEN TRUE
  ELSE previousAxis[i + 1] # controllerAxes[i + 1]

\* Mutant of handleAxes: only the components that changed are stored.
handleAxesChangedOnly(c, gamepad) ==
  LET controllerAxes == gamepad.axes
      previousAxis == c.axis
      newChanged == [i \in 1..Len(controllerAxes) |->
                       AxisDiffers(previousAxis, controllerAxes, i - 1)]
      changed == \E i \in 1..Len(controllerAxes) : newChanged[i]
      c1 == [c EXCEPT !.changedAxes = newChanged]
      merged == [i \in 1..(IF Len(previousAxis) > Len(controllerAxes)
                           THEN Len(previousAxis) ELSE Len(controllerAxes)) |->
                   IF i <= Len(controllerAxes) THEN controllerAxes[i]
                   ELSE previousAxis[i]]
  IN IF ~changed
     THEN [c |-> c1, ret |-> FALSE]
     ELSE [c |-> [c1 EXCEPT !.axis = merged,
                            !.emitted = Append(@, AxisEvent(merged, newChanged))],
           ret |-> TRUE]

handleAxes(c, gamepad) ==
  LET controllerAxes == gamepad.axes
      previousAxis == c.axis
      newChanged == [i \in 1..Len(controllerAxes) |->
                       AxisDiffers(previousAxis, controllerAxes, i - 1)]
      changed == \E i \in 1..Len(controllerAxes) : newChanged[i]
      c1 == [c EXCEPT !.changedAxes = newChanged]
  IN IF ~changed
     THEN [c |-> c1, ret |-> FALSE]
     ELSE [c |-> [c1 EXCEPT !.axis = controllerAxes,
                            !.emitted = Append(@, AxisEvent(controllerAxes, newChanged))],
           ret |-> TRUE]

\* Mutant of the initialization: the button state is created anew on every
\* tick.
InitButtonStateAlways(c, id) ==
  [c EXCEPT !.buttonStates =
     [i \in DOMAIN c.buttonStates \cup {id} |->
        IF i = id THEN [pressed |-> FALSE, touched |-> FALSE, value |-> 0]
        ELSE c.buttonStates[i]]]

\* Initialize button state (the first lines of the loop body of updateButtons).
InitButtonState(c, id) ==
  IF id \in DOMAIN c.buttonStates THEN c
  ELSE [c EXCEPT !.buttonStates =
          [i \in DOMAIN c.buttonStates \cup {id} |->
             IF i = id THEN [pressed |-> FALSE, touched |-> FALSE, value |-> 0]
             ELSE c.buttonStates[i]]]

\* The loop of updateButtons from index id on.
RECURSIVE ButtonLoop(_, _, _)
ButtonLoop(c, gamepad, id) ==
  IF id >= Len(gamepad.buttons) THEN c
  ELSE ButtonLoop(handleButton(InitButtonState(c, id), id, gamepad.buttons[id + 1]).c,
                  gamepad, id + 1)

\* Mutant of updateButtons: the axes are checked before the buttons.
updateButtonsAxesFirst(c, ctl, gamepad) ==
  IF ctl = NoController \/ ~ctl.gamepad THEN c
  ELSE ButtonLoop(handleAxes(c, gamepad).c, gamepad, 0)

updateButtons(c, ctl, gamepad) ==
  IF ctl = NoController \/ ~ctl.gamepad THEN c
  ELSE handleAxes(ButtonLoop(c, gamepad, 0), gamepad).c


(***************************************************************************)
(* The controllers the system can report, and what a tick can read.        *)
(***************************************************************************)
\* A trigger: one analog button and one axis.
LeftTrigger == [name |-> "leftTrigger", handedness |-> "left", profile |-> "trigger",
                gamepad |-> TRUE, hand |-> FALSE, buttons |-> <<"analog">>,
                axes |-> 1]
\* A pad: two digital buttons and a two-axis thumbstick.
LeftPad == [name |-> "leftPad", handedness |-> "left", profile |-> "pad",
            gamepad |-> TRUE, hand |-> FALSE, buttons |-> <<"digital", "digital">>,
            axes |-> 2]
RightPad == [name |-> "rightPad", handedness |-> "right", profile |-> "pad",
             gamepad |-> TRUE, hand |-> FALSE, buttons |-> <<"digital", "digital">>,
             axes |-> 2]
\* A tracked hand.
LeftHand == [name |-> "leftHand", handedness |-> "left", profile |-> "hand",
             gamepad |-> FALSE, hand |-> TRUE, buttons |-> <<>>, axes |-> 0]
\* An input source with a grip space and neither a gamepad nor a hand.
LeftBare == [name |-> "leftBare", handedness |-> "left", profile |-> "bare",
             gamepad |-> FALSE, hand |-> FALSE, buttons |-> <<>>, axes |-> 0]

\* The values system.controllers takes.
ControllerLists ==
  {<<>>, <<LeftTrigger>>, <<RightPad, LeftPad>>, <<LeftHand, RightPad>>, <<LeftBare>>}

\* The component's properties after construction: the schema's defaults
\* (id '', controller -1, autoHide true, no hand tracking) with the hand set.
Data == [id |-> "", hand |-> "left", controller |-> -1,
                handTrackingEnabled |-> FALSE, autoHide |-> TRUE]

\* Button readings. The pressed, touched and value of an analog button vary
\* independently; a digital button is released or fully pressed.
AnalogReadings == [pressed : BOOLEAN, touched : BOOLEAN, value : 0..MaxValue]
DigitalReadings == {[pressed |-> b, touched |-> b, value |-> IF b THEN MaxValue ELSE 0] :
                      b \in BOOLEAN}
Readings(kind) == IF kind = "analog" THEN AnalogReadings ELSE DigitalReadings

\* The button vectors a gamepad with buttons of the given kinds can hold.
RECURSIVE ButtonVectors(_)
ButtonVectors(kinds) ==
  IF kinds = <<>> THEN {<<>>}
  ELSE {<<r>> \o v : r \in Readings(Head(kinds)), v \in ButtonVectors(Tail(kinds))}

AxisValues == {0, 1}
RECURSIVE AxisVectors(_)
AxisVectors(n) ==
  IF n = 0 THEN {<<>>}
  ELSE {Append(v, a) : v \in AxisVectors(n - 1), a \in AxisValues}

\* What controller.gamepad can hold when a tick reads it.
Gamepads(ctl) == [buttons : ButtonVectors(ctl.buttons), axes : AxisVectors(ctl.axes)]
NoGamepad == [buttons |-> <<>>, axes |-> <<>>]

\* What frame.getPose can return for the grip space of a controller: a pose,
\* or null when the source is not tracked (here: a source without a gamepad).
PoseResults(ctl) == IF ctl.gamepad THEN {"pose"} ELSE {NoPose, "pose"}

(***************************************************************************)
(* findMatchingControllerWebXR (utils/tracked-controls.js): the first       *)
(* controller of the list that fits the criteria, or none.                 *)
(***************************************************************************)
ControllerMatches(ctl, i, id, hand, index, handTracking) ==
  /\ IF handTracking THEN ctl.hand ELSE (id = "" \/ ctl.profile = id)
  /\ IF hand \in {"left", "right"} THEN ctl.handedness = hand ELSE i = index

findMatchingControllerWebXR(controllers, id, hand, index, handTracking) ==
  LET fits == {i \in 1..Len(controllers) :
                 ControllerMatches(controllers[i], i - 1, id, hand, index, handTracking)}
  IN IF fits = {} THEN NoController
     ELSE controllers[CHOOSE i \in fits : \A j \in fits : i <= j]

\* updateController: the controller bound for the given list and properties.
updateController(controllers, d) ==
  findMatchingControllerWebXR(controllers, d.id, d.hand, d.controller,
                              d.handTrackingEnabled)

(***************************************************************************)
(* The handlers.                                                           *)
(***************************************************************************)
\* op when the handler that ran last is not tick.
NoRead == [name |-> "none", frame |-> FALSE, referenceSpace |-> FALSE,
           gamepad |-> NoGamepad, ran |-> "none"]

\* The indices whose last event among startName and endName is startName,
\* once the events of log were received, held being those indices before.
RECURSIVE Received(_, _, _, _)
Received(held, log, startName, endName) ==
  IF log = <<>> THEN held
  ELSE LET e == Head(log)
           h == IF e.name = startName THEN held \cup {e.id}
                ELSE IF e.name = endName THEN held \ {e.id}
                ELSE held
       IN Received(h, Tail(log), startName, endName)

\* The component after construction (init, the first update, play) with the
\* properties d, the system's controllers being l.
Constructed(d, l) ==
  /\ buttonStates = <<>>
  /\ axis = <<0, 0, 0>>
  /\ changedAxes = <<>>
  /\ data = d
  /\ sysControllers = l
  /\ controller = updateController(l, d)
  /\ listening = TRUE
  /\ visible = TRUE
  /\ pose = NoPose
  /\ op = NoRead
  /\ emitted = <<>>
  /\ lastDown = {}
  /\ lastTouched = {}

\* update: the component's properties were set to d.
update(d) ==
  /\ data' = d
  /\ controller' = updateController(sysControllers, d)
  /\ op' = NoRead
  /\ emitted' = <<>>
  /\ UNCHANGED <<buttonStates, axis, changedAxes, visible, pose,
                 listening, sysControllers, lastDown, lastTouched>>

play ==
  /\ controller' = updateController(sysControllers, data)
  /\ listening' = TRUE
  /\ op' = NoRead
  /\ emitted' = <<>>
  /\ UNCHANGED <<buttonStates, axis, changedAxes, data, visible, pose,
                 sysControllers, lastDown, lastTouched>>

pause ==
  /\ listening' = FALSE
  /\ op' = NoRead
  /\ emitted' = <<>>
  /\ UNCHANGED <<buttonStates, axis, changedAxes, controller, data, visible, pose,
                 sysControllers, lastDown, lastTouched>>

\* The system's controllers become l and the scene emits 'controllersupdated';
\* updateController runs when it is a listener.
controllersupdated(l) ==
  /\ sysControllers' = l
  /\ controller' = IF listening THEN updateController(l, data) ELSE controller
  /\ op' = NoRead
  /\ emitted' = <<>>
  /\ UNCHANGED <<buttonStates, axis, changedAxes, data, visible, pose,
                 listening, lastDown, lastTouched>>

\* Mutant of tick: the frame is not checked.
tickNoFrameCheck(frame, referenceSpace, p, g) ==
  /\ visible' = IF data.autoHide THEN controller # NoController ELSE visible
  /\ IF controller = NoController \/ ~referenceSpace
     THEN /\ op' = [name |-> "tick", frame |-> frame,
                    referenceSpace |-> referenceSpace, gamepad |-> NoGamepad,
                    ran |-> "skipped"]
          /\ emitted' = <<>>
          /\ UNCHANGED <<buttonStates, axis, changedAxes, pose>>
     ELSE LET c == updateButtons([buttonStates |-> buttonStates, axis |-> axis,
                                  changedAxes |-> changedAxes, emitted |-> <<>>],
                                 controller, g)
          IN /\ pose' = p
             /\ buttonStates' = c.buttonStates
             /\ axis' = c.axis
             /\ changedAxes' = c.changedAxes
             /\ emitted' = c.emitted
             /\ op' = [name |-> "tick", frame |-> frame,
                       referenceSpace |-> referenceSpace,
                       gamepad |-> IF controller.gamepad THEN g ELSE NoGamepad,
                       ran |-> IF controller.gamepad THEN "buttons" ELSE "pose"]
  /\ lastDown' = Received(lastDown, emitted', EVENTS.BUTTONDOWN, EVENTS.BUTTONUP)
  /\ lastTouched' = Received(lastTouched, emitted', EVENTS.TOUCHSTART, EVENTS.TOUCHEND)
  /\ UNCHANGED <<controller, data, listening, sysControllers>>

\* Mutant of tick: the visibility is set after the guard, so a skipped tick
\* leaves it as it was.
tickHideAfterGuard(frame, referenceSpace, p, g) ==
  /\ IF controller = NoController \/ ~frame \/ ~referenceSpace
     THEN /\ op' = [name |-> "tick", frame |-> frame,
                    referenceSpace |-> referenceSpace, gamepad |-> NoGamepad,
                    ran |-> "skipped"]
          /\ emitted' = <<>>
          /\ UNCHANGED <<buttonStates, axis, changedAxes, pose, visible>>
     ELSE /\ visible' = IF data.autoHide THEN controller # NoController ELSE visible
          /\ IF controller.hand
             THEN /\ op' = [name |-> "tick", frame |-> frame,
                            referenceSpace |-> referenceSpace, gamepad |-> NoGamepad,
                            ran |-> "hand"]
                  /\ emitted' = <<>>
                  /\ UNCHANGED <<buttonStates, axis, changedAxes, pose>>
             ELSE LET c == updateButtons([buttonStates |-> buttonStates, axis |-> axis,
                                          changedAxes |-> changedAxes,
                                          emitted |-> <<>>],
                                         controller, g)
                  IN /\ pose' = p
                     /\ buttonStates' = c.buttonStates
                     /\ axis' = c.axis
                     /\ changedAxes' = c.changedAxes
                     /\ emitted' = c.emitted
                     /\ op' = [name |-> "tick", frame |-> frame,
                               referenceSpace |-> referenceSpace,
                               gamepad |-> IF controller.gamepad THEN g ELSE NoGamepad,
                               ran |-> IF controller.gamepad THEN "buttons" ELSE "pose"]
  /\ lastDown' = Received(lastDown, emitted', EVENTS.BUTTONDOWN, EVENTS.BUTTONUP)
  /\ lastTouched' = Received(lastTouched, emitted', EVENTS.TOUCHSTART, EVENTS.TOUCHEND)
  /\ UNCHANGED <<controller, data, listening, sysControllers>>

\* tick, reading the scene's frame, the system's reference space, the pose
\* p that frame.getPose returns and the gamepad g of the bound controller.
tick(frame, referenceSpace, p, g) ==
  /\ visible' = IF data.autoHide THEN controller # NoController ELSE visible
  /\ IF controller = NoController \/ ~frame \/ ~referenceSpace
     THEN /\ op' = [name |-> "tick", frame |-> frame,
                    referenceSpace |-> referenceSpace, gamepad |-> NoGamepad,
                    ran |-> "skipped"]
          /\ emitted' = <<>>
          /\ UNCHANGED <<buttonStates, axis, changedAxes, pose>>
     ELSE IF controller.hand
     THEN /\ op' = [name |-> "tick", frame |-> frame,
                    referenceSpace |-> referenceSpace, gamepad |-> NoGamepad,
                    ran |-> "hand"]
          /\ emitted' = <<>>
          /\ UNCHANGED <<buttonStates, axis, changedAxes, pose>>
     ELSE LET c == updateButtons([buttonStates |-> buttonStates, axis |-> axis,
                                  changedAxes |-> changedAxes, emitted |-> <<>>],
                                 controller, g)
          IN /\ pose' = p
             /\ buttonStates' = c.buttonStates
             /\ axis' = c.axis
             /\ changedAxes' = c.changedAxes
             /\ emitted' = c.emitted
             /\ op' = [name |-> "tick", frame |-> frame,
                       referenceSpace |-> referenceSpace,
                       gamepad |-> IF controller.gamepad THEN g ELSE NoGamepad,
                       ran |-> IF controller.gamepad THEN "buttons" ELSE "pose"]
  /\ lastDown' = Received(lastDown, emitted', EVENTS.BUTTONDOWN, EVENTS.BUTTONUP)
  /\ lastTouched' = Received(lastTouched, emitted', EVENTS.TOUCHSTART, EVENTS.TOUCHEND)
  /\ UNCHANGED <<controller, data, listening, sysControllers>>

\* A tick that is skipped: there is no frame or no reference space.
TickSkipped ==
  \E frame \in BOOLEAN, referenceSpace \in BOOLEAN :
    /\ ~(frame /\ referenceSpace)
    /\ tick(frame, referenceSpace, NoPose, NoGamepad)
    /\ UNCHANGED typeVars

\* A tick with a frame and a reference space.
TickFrame ==
  \E p \in PoseResults(controller), g \in Gamepads(controller) :
    tick(TRUE, TRUE, p, g) /\ UNCHANGED typeVars

(***************************************************************************)
(* JavaScript values, as src/core/propertyTypes.js handles them. A string  *)
(* is the sequence of its characters. An array, an object and an element   *)
(* have an identity (ref, node): === compares them by it.                  *)
(***************************************************************************)
Undefined == [k |-> "undefined"]
Null == [k |-> "null"]
NaN == [k |-> "NaN"]
Bool(b) == [k |-> "boolean", b |-> b]
Num(n) == [k |-> "number", n |-> n]
Str(s) == [k |-> "string", s |-> s]
Arr(ref, items) == [k |-> "array", ref |-> ref, a |-> items]
Obj(ref, fields) == [k |-> "object", ref |-> ref, f |-> fields]
\* An element of the document: id and src are what getAttribute returns, a
\* string or null.
Element(node, tagName, id, src) ==
  [k |-> "element", node |-> node, tagName |-> tagName, id |-> id, src |-> src]
\* The outcome of a call that throws.
Thrown(error) == [k |-> "throw", error |-> error]

IsThrown(v) == v.k = "throw"

\* typeof v
TypeOf(v) ==
  CASE v.k \in {"null", "array", "object", "element"} -> "object"
    [] v.k = "NaN" -> "number"
    [] OTHER -> v.k

\* !v
Falsy(v) ==
  \/ v.k \in {"undefined", "null", "NaN"}
  \/ v.k = "boolean" /\ ~v.b
  \/ v.k = "number" /\ v.n = 0
  \/ v.k = "string" /\ v.s = <<>>

\* a === b
StrictEquals(a, b) ==
  /\ a.k = b.k
  /\ CASE a.k \in {"undefined", "null"} -> TRUE
       [] a.k = "NaN" -> FALSE
       [] a.k = "boolean" -> a.b = b.b
       [] a.k = "number" -> a.n = b.n
       [] a.k = "string" -> a.s = b.s
       [] a.k \in {"array", "object"} -> a.ref = b.ref
       [] a.k = "element" -> a.node = b.node
       [] a.k = "function" -> a.name = b.name
       [] OTHER -> FALSE

Digits == <<"0", "1", "2", "3", "4", "5", "6", "7", "8", "9">>
IsDigit(ch) == \E d \in 1..10 : Digits[d] = ch
DigitValue(ch) == (CHOOSE d \in 1..10 : Digits[d] = ch) - 1
IsSpace(ch) == ch = " "

\* The decimal digits of a natural number.
RECURSIVE NatToString(_)
NatToString(n) ==
  IF n < 10 THEN <<Digits[n + 1]>>
  ELSE Append(NatToString(n \div 10), Digits[(n % 10) + 1])

\* Number.prototype.toString of an integer.
NumberToString(n) == IF n < 0 THEN <<"-">> \o NatToString(-n) ELSE NatToString(n)

\* String.prototype.trim
RECURSIVE TrimStart(_)
TrimStart(s) == IF s # <<>> /\ IsSpace(Head(s)) THEN TrimStart(Tail(s)) ELSE s
RECURSIVE TrimEnd(_)
TrimEnd(s) ==
  IF s # <<>> /\ IsSpace(s[Len(s)]) THEN TrimEnd(SubSeq(s, 1, Len(s) - 1)) ELSE s
Trim(s) == TrimEnd(TrimStart(s))

\* String.prototype.split with a separator of one character.
RECURSIVE Split(_, _)
Split(s, sep) ==
  IF \A i \in 1..Len(s) : s[i] # sep THEN <<s>>
  ELSE LET i == CHOOSE j \in 1..Len(s) : s[j] = sep /\ \A h \in 1..(j - 1) : s[h] # sep
       IN <<SubSeq(s, 1, i - 1)>> \o Split(SubSeq(s, i + 1, Len(s)), sep)

\* The strings of items joined by the separator sep.
RECURSIVE JoinStrings(_, _)
JoinStrings(items, sep) ==
  IF items = <<>> THEN <<>>
  ELSE IF Len(items) = 1 THEN items[1]
  ELSE items[1] \o sep \o JoinStrings(Tail(items), sep)

\* The leading digits of s and their value, as parseInt and parseFloat read
\* them (the model has no fraction and no exponent).
RECURSIVE DigitsValue(_, _)
DigitsValue(s, acc) ==
  IF s # <<>> /\ IsDigit(Head(s)) THEN DigitsValue(Tail(s), 10 * acc + DigitValue(Head(s)))
  ELSE acc

\* ToStringJS(v), the conversion of String(v), of parseInt and of join.
RECURSIVE ToStringJS(_)
ToStringJS(v) ==
  CASE v.k = "undefined" -> <<"u", "n", "d", "e", "f", "i", "n", "e", "d">>
    [] v.k = "null" -> <<"n", "u", "l", "l">>
    [] v.k = "NaN" -> <<"N", "a", "N">>
    [] v.k = "boolean" -> IF v.b THEN <<"t", "r", "u", "e">>
                          ELSE <<"f", "a", "l", "s", "e">>
    [] v.k = "number" -> NumberToString(v.n)
    [] v.k = "string" -> v.s
    [] v.k = "array" ->
         JoinStrings([i \in 1..Len(v.a) |->
                        IF v.a[i].k \in {"undefined", "null"} THEN <<>>
                        ELSE ToStringJS(v.a[i])], <<",">>)
    [] v.k = "object" -> <<"[object Object]">>
    [] v.k = "element" -> <<"[object HTMLElement]">>

\* parseInt(value, 10)
ParseInt(value) ==
  LET s == TrimStart(ToStringJS(value))
      negative == s # <<>> /\ Head(s) = "-"
      body == IF s # <<>> /\ Head(s) \in {"-", "+"} THEN Tail(s) ELSE s
  IN IF body = <<>> \/ ~IsDigit(Head(body)) THEN NaN
     ELSE Num(IF negative THEN -DigitsValue(body, 0) ELSE DigitsValue(body, 0))

\* value.toString(): null and undefined have no such method.
ToStringMethod(value) ==
  IF value.k \in {"undefined", "null"} THEN Thrown("TypeError")
  ELSE Str(ToStringJS(value))

\* Array.prototype.join, the separator being sep.
Join(items, sep) ==
  Str(JoinStrings([i \in 1..Len(items) |->
                     IF items[i].k \in {"undefined", "null"} THEN <<>>
                     ELSE ToStringJS(items[i])], sep))

(***************************************************************************)
(* The document the asset and selector types look elements up in.          *)
(***************************************************************************)
\* <img id="i" src="p">
Img == Element("img", "IMG", Str(<<"i">>), Str(<<"p">>))
\* <a-asset-item id="m" src="q">
AssetItem == Element("item", "A-ASSET-ITEM", Str(<<"m">>), Str(<<"q">>))
\* <canvas>, with neither an id nor a src
Canvas == Element("canvas", "CANVAS", Null, Null)

Document == <<Img, AssetItem, Canvas>>

\* document.getElementById(id)
GetElementById(id) ==
  LET found == {i \in 1..Len(Document) : id # <<>> /\ Document[i].id = Str(id)}
  IN IF found = {} THEN Null
     ELSE Document[CHOOSE i \in found : \A j \in found : i <= j]

Letters == {"a", "b", "c", "d", "e", "f", "g", "h", "i", "j", "k", "l", "m", "n",
            "o", "p", "q", "r", "s", "t", "u", "v", "w", "x", "y", "z", "N"}

\* The type selector that matches the elements of a tag name.
TagChars(tagName) ==
  CASE tagName = "IMG" -> <<"i", "m", "g">>
    [] tagName = "CANVAS" -> <<"c", "a", "n", "v", "a", "s">>
    [] OTHER -> <<"a", "-", "a", "s", "s", "e", "t", "-", "i", "t", "e", "m">>

\* The selectors the model's document understands: a list, separated by
\* commas, of #id and of tag names.
SelectorParts(sel) == LET parts == Split(sel, ",") IN [i \in 1..Len(parts) |-> Trim(parts[i])]
IsName(s) ==
  /\ s # <<>>
  /\ Head(s) \in Letters
  /\ \A i \in 1..Len(s) : s[i] \in Letters \/ IsDigit(s[i]) \/ s[i] = "-"
ValidPart(part) ==
  part # <<>> /\ IsName(IF Head(part) = "#" THEN Tail(part) ELSE part)
PartMatches(part, el) ==
  IF Head(part) = "#" THEN el.id = Str(Tail(part)) ELSE TagChars(el.tagName) = part

\* The positions in the document of the elements a selector matches.
Matching(sel) ==
  {i \in 1..Len(Document) :
     \E j \in 1..Len(SelectorParts(sel)) : PartMatches(SelectorParts(sel)[j], Document[i])}
ValidSelector(sel) ==
  \A j \in 1..Len(SelectorParts(sel)) : ValidPart(SelectorParts(sel)[j])

\* The members of a set of positions, in ascending order.
RECURSIVE Ascending(_)
Ascending(set) ==
  IF set = {} THEN <<>>
  ELSE LET m == CHOOSE i \in set : \A j \in set : i <= j
       IN <<m>> \o Ascending(set \ {m})

\* document.querySelector(sel): an invalid selector throws.
QuerySelector(sel) ==
  IF ~ValidSelector(sel) THEN Thrown("SyntaxError")
  ELSE IF Matching(sel) = {} THEN Null
  ELSE Document[Ascending(Matching(sel))[1]]

\* Array.prototype.slice.call(document.querySelectorAll(sel), 0)
QuerySelectorAll(sel) ==
  IF ~ValidSelector(sel) THEN Thrown("SyntaxError")
  ELSE LET at == Ascending(Matching(sel))
       IN Arr("new", [i \in 1..Len(at) |-> Document[at[i]]])

(***************************************************************************)
(* The parse, stringify and equals functions of the built-in types.        *)
(***************************************************************************)
\* value.match(urlRegex), urlRegex being /url\((.+)\)/: the first "url("
\* that a non-empty body and a ")" follow, the body running to the last ")".
UrlStarts(s) ==
  {i \in 1..Len(s) :
     /\ i + 5 <= Len(s)
     /\ SubSeq(s, i, i + 3) = <<"u", "r", "l", "(">>
     /\ \E j \in (i + 5)..Len(s) : s[j] = ")"}
UrlMatches(s) == UrlStarts(s) # {}
UrlBody(s) ==
  LET i == CHOOSE h \in UrlStarts(s) : \A g \in UrlStarts(s) : h <= g
      j == CHOOSE h \in (i + 5)..Len(s) :
             s[h] = ")" /\ \A g \in (h + 1)..Len(s) : s[g] # ")"
  IN SubSeq(s, i + 4, j - 1)

\* nonCharRegex.test(value), nonCharRegex being /[,> .[\]:]/
NonCharTest(s) == \E i \in 1..Len(s) : s[i] \in {",", ">", " ", ".", "[", "]", ":"}

\* Mutant of arrayParse: the segments are not trimmed.
arrayParseNoTrim(value) ==
  IF value.k = "array" THEN value
  ELSE IF Falsy(value) \/ TypeOf(value) # "string" THEN Arr("new", <<>>)
  ELSE LET parts == Split(value.s, ",")
       IN Arr("new", [i \in 1..Len(parts) |-> Str(parts[i])])

arrayParse(value) ==
  IF value.k = "array" THEN value
  ELSE IF Falsy(value) \/ TypeOf(value) # "string" THEN Arr("new", <<>>)
  ELSE LET parts == Split(value.s, ",")
       IN Arr("new", [i \in 1..Len(parts) |-> Str(Trim(parts[i]))])

\* value.join(', '): only an array has a join.
arrayStringify(value) ==
  IF value.k = "array" THEN Join(value.a, <<",", " ">>) ELSE Thrown("TypeError")

arrayEquals(a, b) ==
  IF a.k # "array" \/ b.k # "array" THEN StrictEquals(a, b)
  ELSE IF Len(a.a) # Len(b.a) THEN FALSE
  ELSE \A i \in 1..Len(a.a) : StrictEquals(a.a[i], b.a[i])

assetParse(value) ==
  IF TypeOf(value) # "string" THEN value
  ELSE IF UrlMatches(value.s) THEN Str(UrlBody(value.s))
  ELSE IF value.s # <<>> /\ Head(value.s) = "#"
  THEN LET el == GetElementById(Tail(value.s))
       IN IF el # Null
          THEN IF el.tagName \in {"CANVAS", "VIDEO", "IMG"} THEN el ELSE el.src
          ELSE Undefined
  ELSE value

defaultParse(value) == value

defaultStringify(value) ==
  IF value = Null THEN Str(<<"n", "u", "l", "l">>) ELSE ToStringMethod(value)

defaultEquals(a, b) == StrictEquals(a, b)

\* value.getAttribute: reading a property of null or undefined throws;
\* among the other values only an element has the method.
assetStringify(value) ==
  IF value.k \in {"undefined", "null"} THEN Thrown("TypeError")
  ELSE IF value.k = "element"
  THEN IF ~Falsy(value.id) THEN Str(<<"#">> \o value.id.s) ELSE value.src
  ELSE defaultStringify(value)

boolParse(value) ==
  Bool(~StrictEquals(value, Str(<<"f", "a", "l", "s", "e">>))
       /\ ~StrictEquals(value, Bool(FALSE)))

intParse(value) == ParseInt(value)

\* parseFloat(value, 10): the model's numbers are integers.
numberParse(value) == ParseInt(value)

selectorParse(value) ==
  IF Falsy(value) THEN Null
  ELSE IF TypeOf(value) # "string" THEN value
  ELSE IF Head(value.s) = "#" /\ ~NonCharTest(value.s)
  THEN GetElementById(Tail(value.s))
  ELSE QuerySelector(value.s)

selectorAllParse(value) ==
  IF Falsy(value) THEN Null
  ELSE IF TypeOf(value) # "string" THEN value
  ELSE QuerySelectorAll(value.s)

selectorStringify(value) ==
  IF value.k \in {"undefined", "null"} THEN Thrown("TypeError")
  ELSE IF value.k = "element" THEN Str(<<"#">> \o ToStringJS(value.id))
  ELSE defaultStringify(value)

\* element.getAttribute of a member that is no element throws.
selectorAllStringify(value) ==
  IF value.k = "array"
  THEN IF \E i \in 1..Len(value.a) : value.a[i].k # "element" THEN Thrown("TypeError")
       ELSE Join([i \in 1..Len(value.a) |-> Str(<<"#">> \o ToStringJS(value.a[i].id))],
                 <<",", " ">>)
  ELSE defaultStringify(value)

\* srcParse warns that the type is deprecated and parses as an asset.
srcParse(value) == assetParse(value)

\* The warnings assetParse(value) logs: an id that no element has.
assetParseWarn(value) ==
  IF /\ TypeOf(value) = "string"
     /\ ~UrlMatches(value.s)
     /\ value.s # <<>> /\ Head(value.s) = "#"
     /\ GetElementById(Tail(value.s)) = Null
  THEN <<"asset not found">>
  ELSE <<>>

\* The warnings srcParse(value) logs.
srcParseWarn(value) == <<"src is deprecated">> \o assetParseWarn(value)

\* Object.keys(value).length of an object, an array or an element.
KeyCount(value) ==
  CASE value.k = "object" -> Cardinality(DOMAIN value.f)
    [] value.k = "array" -> Len(value.a)
    [] OTHER -> 0

\* value[name], name being x, y, z or w.
Get(value, name) ==
  IF value.k = "object" /\ name \in DOMAIN value.f THEN value.f[name] ELSE Undefined

isValidDefaultCoordinate(possibleCoordinates, dimensions) ==
  IF possibleCoordinates = Null THEN TRUE
  ELSE IF TypeOf(possibleCoordinates) # "object" THEN FALSE
  ELSE IF KeyCount(possibleCoordinates) # dimensions THEN FALSE
  ELSE LET x == Get(possibleCoordinates, "x")
           y == Get(possibleCoordinates, "y")
           z == Get(possibleCoordinates, "z")
           w == Get(possibleCoordinates, "w")
       IN IF TypeOf(x) # "number" \/ TypeOf(y) # "number" THEN FALSE
          ELSE IF dimensions > 2 /\ TypeOf(z) # "number" THEN FALSE
          ELSE IF dimensions > 3 /\ TypeOf(w) # "number" THEN FALSE
          ELSE TRUE

\* Mutant of isValidDefaultValue: null is no valid default of a selector.
isValidDefaultValueNoNull(type, defaultVal) ==
  IF type = "audio" /\ TypeOf(defaultVal) # "string" THEN FALSE
  ELSE IF type = "array" /\ defaultVal.k # "array" THEN FALSE
  ELSE IF type = "asset" /\ TypeOf(defaultVal) # "string" THEN FALSE
  ELSE IF type = "boolean" /\ TypeOf(defaultVal) # "boolean" THEN FALSE
  ELSE IF type = "color" /\ TypeOf(defaultVal) # "string" THEN FALSE
  ELSE IF type = "int" /\ TypeOf(defaultVal) # "number" THEN FALSE
  ELSE IF type = "number" /\ TypeOf(defaultVal) # "number" THEN FALSE
  ELSE IF type = "map" /\ TypeOf(defaultVal) # "string" THEN FALSE
  ELSE IF type = "model" /\ TypeOf(defaultVal) # "string" THEN FALSE
  ELSE IF type = "selector" /\ TypeOf(defaultVal) # "string" THEN FALSE
  ELSE IF type = "selectorAll" /\ TypeOf(defaultVal) # "string" /\ defaultVal # Null
  THEN FALSE
  ELSE IF type = "src" /\ TypeOf(defaultVal) # "string" THEN FALSE
  ELSE IF type = "string" /\ TypeOf(defaultVal) # "string" THEN FALSE
  ELSE IF type = "time" /\ TypeOf(defaultVal) # "number" THEN FALSE
  ELSE IF type = "vec2" THEN isValidDefaultCoordinate(defaultVal, 2)
  ELSE IF type = "vec3" THEN isValidDefaultCoordinate(defaultVal, 3)
  ELSE IF type = "vec4" THEN isValidDefaultCoordinate(defaultVal, 4)
  ELSE TRUE

isValidDefaultValue(type, defaultVal) ==
  IF type = "audio" /\ TypeOf(defaultVal) # "string" THEN FALSE
  ELSE IF type = "array" /\ defaultVal.k # "array" THEN FALSE
  ELSE IF type = "asset" /\ TypeOf(defaultVal) # "string" THEN FALSE
  ELSE IF type = "boolean" /\ TypeOf(defaultVal) # "boolean" THEN FALSE
  ELSE IF type = "color" /\ TypeOf(defaultVal) # "string" THEN FALSE
  ELSE IF type = "int" /\ TypeOf(defaultVal) # "number" THEN FALSE
  ELSE IF type = "number" /\ TypeOf(defaultVal) # "number" THEN FALSE
  ELSE IF type = "map" /\ TypeOf(defaultVal) # "string" THEN FALSE
  ELSE IF type = "model" /\ TypeOf(defaultVal) # "string" THEN FALSE
  ELSE IF type = "selector" /\ TypeOf(defaultVal) # "string" /\ defaultVal # Null
  THEN FALSE
  ELSE IF type = "selectorAll" /\ TypeOf(defaultVal) # "string" /\ defaultVal # Null
  THEN FALSE
  ELSE IF type = "src" /\ TypeOf(defaultVal) # "string" THEN FALSE
  ELSE IF type = "string" /\ TypeOf(defaultVal) # "string" THEN FALSE
  ELSE IF type = "time" /\ TypeOf(defaultVal) # "number" THEN FALSE
  ELSE IF type = "vec2" THEN isValidDefaultCoordinate(defaultVal, 2)
  ELSE IF type = "vec3" THEN isValidDefaultCoordinate(defaultVal, 3)
  ELSE IF type = "vec4" THEN isValidDefaultCoordinate(defaultVal, 4)
  ELSE TRUE

(***************************************************************************)
(* The registry of property types.                                         *)
(***************************************************************************)
\* A function of the module, as a value.
Fn(name) == [k |-> "function", name |-> name]

\* The names every object inherits from Object.prototype: the operator
\* "in" finds them in the empty registry {}.
ObjectPrototype == {"constructor", "toString", "valueOf", "hasOwnProperty"}

\* type in registry
In(type, registry) == type \in DOMAIN registry \/ type \in ObjectPrototype

\* a || b
Or(a, b) == IF Falsy(a) THEN b ELSE a

\* registry[type] = descriptor
Put(registry, type, descriptor) ==
  [t \in DOMAIN registry \cup {type} |-> IF t = type THEN descriptor ELSE registry[t]]

\* Mutant of registerPropertyType: a registered name is registered again.
registerPropertyTypeAgain(registry, type, defaultValue, parse, stringify, equals, cacheable) ==
  [registry |-> Put(registry, type,
                    [default |-> defaultValue,
                     parse |-> Or(parse, Fn("defaultParse")),
                     stringify |-> Or(stringify, Fn("defaultStringify")),
                     equals |-> Or(equals, Fn("defaultEquals")),
                     isCacheable |-> ~StrictEquals(cacheable, Bool(FALSE))]),
   ret |-> Undefined]

\* Mutant of registerPropertyType: a type is cacheable when cacheable is
\* truthy.
registerPropertyTypeTruthy(registry, type, defaultValue, parse, stringify, equals, cacheable) ==
  IF In(type, registry) THEN [registry |-> registry, ret |-> Thrown("Error")]
  ELSE [registry |-> Put(registry, type,
                         [default |-> defaultValue,
                          parse |-> Or(parse, Fn("defaultParse")),
                          stringify |-> Or(stringify, Fn("defaultStringify")),
                          equals |-> Or(equals, Fn("defaultEquals")),
                          isCacheable |-> ~Falsy(cacheable)]),
        ret |-> Undefined]

\* Mutant of registerPropertyType: the descriptor is not stored.
registerPropertyTypeNoStore(registry, type, defaultValue, parse, stringify, equals, cacheable) ==
  IF In(type, registry) THEN [registry |-> registry, ret |-> Thrown("Error")]
  ELSE [registry |-> registry, ret |-> Undefined]

\* registerPropertyType: the registry after the call, and what the call
\* returns or throws. An argument that is left out is undefined.
registerPropertyType(registry, type, defaultValue, parse, stringify, equals, cacheable) ==
  IF In(type, registry) THEN [registry |-> registry, ret |-> Thrown("Error")]
  ELSE [registry |-> Put(registry, type,
                         [default |-> defaultValue,
                          parse |-> Or(parse, Fn("defaultParse")),
                          stringify |-> Or(stringify, Fn("defaultStringify")),
                          equals |-> Or(equals, Fn("defaultEquals")),
                          isCacheable |-> ~StrictEquals(cacheable, Bool(FALSE))]),
        ret |-> Undefined]

Vec2Default == Obj("vec2", [x |-> Num(0), y |-> Num(0)])
Vec3Default == Obj("vec3", [x |-> Num(0), y |-> Num(0), z |-> Num(0)])
Vec4Default == Obj("vec4", [x |-> Num(0), y |-> Num(0), z |-> Num(0), w |-> Num(1)])

\* The registrations of the built-in types, in the order of the module.
BuiltIns ==
  << <<"audio", Str(<<>>), Fn("assetParse"), Fn("assetStringify"), Undefined, Undefined>>,
     <<"array", Arr("default", <<>>), Fn("arrayParse"), Fn("arrayStringify"),
       Fn("arrayEquals"), Undefined>>,
     <<"asset", Str(<<>>), Fn("assetParse"), Fn("assetStringify"), Undefined, Undefined>>,
     <<"boolean", Bool(FALSE), Fn("boolParse"), Undefined, Undefined, Undefined>>,
     <<"color", Str(<<"#", "F", "F", "F">>), Undefined, Undefined, Undefined, Undefined>>,
     <<"int", Num(0), Fn("intParse"), Undefined, Undefined, Undefined>>,
     <<"number", Num(0), Fn("numberParse"), Undefined, Undefined, Undefined>>,
     <<"map", Str(<<>>), Fn("assetParse"), Fn("assetStringify"), Undefined, Undefined>>,
     <<"model", Str(<<>>), Fn("assetParse"), Fn("assetStringify"), Undefined, Undefined>>,
     <<"selector", Null, Fn("selectorParse"), Fn("selectorStringify"),
       Fn("defaultEquals"), Bool(FALSE)>>,
     <<"selectorAll", Null, Fn("selectorAllParse"), Fn("selectorAllStringify"),
       Fn("arrayEquals"), Bool(FALSE)>>,
     <<"src", Str(<<>>), Fn("srcParse"), Fn("assetStringify"), Undefined, Undefined>>,
     <<"string", Str(<<>>), Undefined, Undefined, Undefined, Undefined>>,
     <<"time", Num(0), Fn("intParse"), Undefined, Undefined, Undefined>>,
     <<"vec2", Vec2Default, Fn("vecParse"), Fn("coordinates.stringify"),
       Fn("coordinates.equals"), Undefined>>,
     <<"vec3", Vec3Default, Fn("vecParse"), Fn("coordinates.stringify"),
       Fn("coordinates.equals"), Undefined>>,
     <<"vec4", Vec4Default, Fn("vecParse"), Fn("coordinates.stringify"),
       Fn("coordinates.equals"), Undefined>> >>

\* The registry once the first n built-in types are registered.
RECURSIVE Registered(_)
Registered(n) ==
  IF n = 0 THEN <<>>
  ELSE LET r == BuiltIns[n]
       IN registerPropertyType(Registered(n - 1), r[1], r[2], r[3], r[4], r[5], r[6]).registry

\* The registry once the module is loaded.
BuiltInTypes == Registered(Len(BuiltIns))

\* The call of a function by its name.
Parse(fn, value) ==
  CASE fn.name = "arrayParse" -> arrayParse(value)
    [] fn.name = "assetParse" -> assetParse(value)
    [] fn.name = "boolParse" -> boolParse(value)
    [] fn.name = "defaultParse" -> defaultParse(value)
    [] fn.name = "intParse" -> intParse(value)
    [] fn.name = "numberParse" -> numberParse(value)
    [] fn.name = "selectorParse" -> selectorParse(value)
    [] fn.name = "selectorAllParse" -> selectorAllParse(value)
    [] fn.name = "srcParse" -> srcParse(value)

Stringify(fn, value) ==
  CASE fn.name = "arrayStringify" -> arrayStringify(value)
    [] fn.name = "assetStringify" -> assetStringify(value)
    [] fn.name = "defaultStringify" -> defaultStringify(value)
    [] fn.name = "selectorStringify" -> selectorStringify(value)
    [] fn.name = "selectorAllStringify" -> selectorAllStringify(value)

Equals(fn, a, b) ==
  CASE fn.name = "arrayEquals" -> arrayEquals(a, b)
    [] fn.name = "defaultEquals" -> defaultEquals(a, b)

\* The warnings a parse function logs.
Warned(fn, value) ==
  CASE fn.name = "assetParse" -> assetParseWarn(value)
    [] fn.name = "srcParse" -> srcParseWarn(value)
    [] OTHER -> <<>>

NoCall == [fn |-> "none", type |-> "", args |-> <<>>, out |-> <<>>, warned |-> <<>>]

\* A call registerPropertyType(type, defaultValue, parse, stringify, equals,
\* cacheable).
Register(type, defaultValue, parse, stringify, equals, cacheable) ==
  LET r == registerPropertyType(propertyTypes, type, defaultValue, parse, stringify,
                                equals, cacheable)
  IN /\ propertyTypes' = r.registry
     /\ call' = [fn |-> "registerPropertyType", type |-> type,
                 args |-> <<defaultValue, parse, stringify, equals, cacheable>>,
                 out |-> <<r.ret>>, warned |-> <<>>]

\* lookup(name): the descriptor of a registered name, an error for any
\* other name.
lookup(registry, name) ==
  IF name \in DOMAIN registry THEN registry[name] ELSE Thrown("UnknownTypeError")

\* A call lookup(name).
Lookup(name) ==
  /\ call' = [fn |-> "lookup", type |-> name, args |-> <<>>,
              out |-> <<lookup(propertyTypes, name)>>, warned |-> <<>>]
  /\ UNCHANGED propertyTypes

\* A value x of a type is written to the DOM and read back:
\* parse(stringify(x)), compared to x with the type's equals. A call that
\* throws ends the round trip.
RoundTrip(type, x) ==
  LET t == propertyTypes[type]
      str == Stringify(t.stringify, x)
      parsed == IF IsThrown(str) THEN str ELSE Parse(t.parse, str)
      equal == IF IsThrown(parsed) THEN parsed ELSE Bool(Equals(t.equals, parsed, x))
  IN /\ call' = [fn |-> "roundtrip", type |-> type, args |-> <<x>>,
                 out |-> <<str, parsed, equal>>,
                 warned |-> IF IsThrown(str) THEN <<>> ELSE Warned(t.parse, str)]
     /\ UNCHANGED propertyTypes

\* A raw value v is parsed as a value of a type, and the result is parsed
\* again.
ParseValue(type, v) ==
  LET t == propertyTypes[type]
      parsed == Parse(t.parse, v)
      again == IF IsThrown(parsed) THEN parsed ELSE Parse(t.parse, parsed)
  IN /\ call' = [fn |-> "parse", type |-> type, args |-> <<v>>,
                 out |-> <<parsed, again>>, warned |-> Warned(t.parse, v)]
     /\ UNCHANGED propertyTypes

\* The values a and b that the raw values v and w parse to are compared with
\* the equals of the type: a with b, b with a, a with itself.
CompareValues(type, v, w) ==
  LET t == propertyTypes[type]
      a == Parse(t.parse, v)
      b == Parse(t.parse, w)
  IN /\ ~IsThrown(a) /\ ~IsThrown(b)
     /\ call' = [fn |-> "equals", type |-> type, args |-> <<v, w>>,
                 out |-> <<a, b, Bool(Equals(t.equals, a, b)),
                           Bool(Equals(t.equals, b, a)), Bool(Equals(t.equals, a, a))>>,
                 warned |-> <<>>]
     /\ UNCHANGED propertyTypes

\* A value x of a type is written to the DOM: stringify(x).
StringifyValue(type, x) ==
  /\ call' = [fn |-> "stringify", type |-> type, args |-> <<x>>,
              out |-> <<Stringify(propertyTypes[type].stringify, x)>>, warned |-> <<>>]
  /\ UNCHANGED propertyTypes

\* A call isValidDefaultValue(type, defaultVal).
Validate(type, defaultVal) ==
  /\ call' = [fn |-> "isValidDefaultValue", type |-> type, args |-> <<defaultVal>>,
              out |-> <<Bool(isValidDefaultValue(type, defaultVal))>>, warned |-> <<>>]
  /\ UNCHANGED propertyTypes

(***************************************************************************)
(* The component with its default properties, playing: the controllers    *)
(* come and go and the component ticks.                                    *)
(***************************************************************************)
Loaded == propertyTypes = BuiltInTypes /\ call = NoCall

Init == (\E l \in ControllerLists : Constructed(Data, l)) /\ Loaded

Update == update(Data) /\ UNCHANGED typeVars

Play == play /\ UNCHANGED typeVars

ControllersUpdated ==
  \E l \in ControllerLists : controllersupdated(l) /\ UNCHANGED typeVars

Next == Update \/ Play \/ ControllersUpdated \/ TickSkipped \/ TickFrame

Spec == Init /\ [][Next]_vars

(***************************************************************************)
(* The component played and paused: while it is paused it does not hear    *)
(* 'controllersupdated'. tick has no guard of its own, so a tick is taken  *)
(* in either state.                                                        *)
(***************************************************************************)
\* The values system.controllers takes here: no controller, the trigger, the
\* two pads.
LifecycleLists == {<<>>, <<LeftTrigger>>, <<RightPad, LeftPad>>}

InitLifecycle == (\E l \in LifecycleLists : Constructed(Data, l)) /\ Loaded

Pause == pause /\ UNCHANGED typeVars

ControllersChanged ==
  \E l \in LifecycleLists : controllersupdated(l) /\ UNCHANGED typeVars

NextLifecycle ==
  Update \/ Play \/ Pause \/ ControllersChanged \/ TickSkipped \/ TickFrame

SpecLifecycle == InitLifecycle /\ [][NextLifecycle]_vars

(***************************************************************************)
(* The component with autoHide set and cleared: the controllers are none,  *)
(* the trigger, or a tracked hand and a pad.                               *)
(***************************************************************************)
AutoHideLists == {<<>>, <<LeftTrigger>>, <<LeftHand, RightPad>>}

InitAutoHide == (\E l \in AutoHideLists : Constructed(Data, l)) /\ Loaded

\* setAttribute('tracked-controls', 'autoHide', b)
SetAutoHide ==
  \E b \in BOOLEAN : update([data EXCEPT !.autoHide = b]) /\ UNCHANGED typeVars

ControllersAppear ==
  \E l \in AutoHideLists : controllersupdated(l) /\ UNCHANGED typeVars

NextAutoHide == SetAutoHide \/ ControllersAppear \/ TickSkipped \/ TickFrame

SpecAutoHide == InitAutoHide /\ [][NextAutoHide]_vars

(***************************************************************************)
(* The registry, types being registered after the module is loaded.        *)
(***************************************************************************)
InitTypes == Constructed(Data, <<>>) /\ Loaded

RegistrationNames == {"array", "selector", "toString", "custom", "other"}

\* defaultValue, parse, stringify, equals, cacheable
RegistrationArgs ==
  { <<Undefined, Undefined, Undefined, Undefined, Undefined>>,
    <<Num(1), Fn("intParse"), Undefined, Undefined, Undefined>>,
    <<Str(<<>>), Fn("assetParse"), Fn("assetStringify"), Undefined, Bool(TRUE)>>,
    <<Null, Fn("selectorParse"), Fn("selectorStringify"), Fn("defaultEquals"),
      Bool(FALSE)>>,
    <<Arr("other", <<>>), Fn("arrayParse"), Fn("arrayStringify"), Fn("arrayEquals"),
      Undefined>>,
    <<Bool(TRUE), Fn("boolParse"), Undefined, Undefined, Num(0)>> }

RegisterType ==
  \E type \in RegistrationNames, a \in RegistrationArgs :
    Register(type, a[1], a[2], a[3], a[4], a[5]) /\ UNCHANGED ctlVars

LookupType ==
  \E name \in RegistrationNames \cup {"missing"} : Lookup(name) /\ UNCHANGED ctlVars

NextRegistry == RegisterType \/ LookupType

SpecRegistry == InitTypes /\ [][NextRegistry]_vars

(***************************************************************************)
(* Values of the built-in types written to the DOM and read back.          *)
(***************************************************************************)
\* The strings of at most n characters, each a letter or a space.
RECURSIVE Strings(_)
Strings(n) ==
  IF n = 0 THEN {<<>>}
  ELSE Strings(n - 1) \cup {Append(s, ch) : s \in Strings(n - 1), ch \in {"a", " "}}

\* The sequences of at most n members of set.
RECURSIVE Tuples(_, _)
Tuples(set, n) ==
  IF n = 0 THEN {<<>>}
  ELSE Tuples(set, n - 1) \cup {Append(s, x) : s \in Tuples(set, n - 1), x \in set}

\* The built-in types whose parse, stringify and equals are functions of
\* src/core/propertyTypes.js (those of the vector types are not).
CodecTypes ==
  {"audio", "array", "asset", "boolean", "color", "int", "number", "map", "model",
   "selector", "selectorAll", "src", "string", "time"}

\* The values a property of a type holds.
ArrayValues ==
  {Arr("value", a) : a \in Tuples({Str(s) : s \in Strings(MaxLen)}, MaxItems)}

StringValues == {Str(s) : s \in Strings(MaxLen)}

ElementLists ==
  {Arr("value", a) : a \in Tuples({Document[i] : i \in 1..Len(Document)}, MaxItems)}

InternalValues(type) ==
  {propertyTypes[type].default} \cup
  CASE type = "array" -> ArrayValues
    [] type = "boolean" -> {Bool(TRUE), Bool(FALSE)}
    [] type \in {"int", "time", "number"} -> {Num(n) : n \in (0 - MaxInt)..MaxInt}
    [] type \in {"string", "color"} -> StringValues
    [] type = "selector" -> {Document[i] : i \in 1..Len(Document)}
    [] type = "selectorAll" -> ElementLists
    [] OTHER -> StringValues \cup {Img, Canvas}

\* The strings of at most n characters, each a letter, a space or a comma.
RECURSIVE Texts(_)
Texts(n) ==
  IF n = 0 THEN {<<>>}
  ELSE Texts(n - 1) \cup {Append(s, ch) : s \in Texts(n - 1), ch \in {"a", " ", ","}}

\* url(s)
Url(s) == <<"u", "r", "l", "(">> \o s \o <<")">>

\* s in at most n url(...) wrappers, one inside the other.
RECURSIVE Wrapped(_, _)
Wrapped(s, n) == IF n = 0 THEN {s} ELSE {s} \cup {Url(t) : t \in Wrapped(s, n - 1)}

\* The strings an attribute holds: text, numbers, booleans, ids of elements
\* that exist (#i, #m) or not (#x), a tag name, a list, url(...) wrappers.
RawStrings ==
  Texts(MaxLen)
    \cup {NumberToString(n) : n \in (0 - MaxInt)..MaxInt}
    \cup {<<"1", "a">>, <<"t", "r", "u", "e">>, <<"f", "a", "l", "s", "e">>,
          <<"#", "m">>, <<"i", "m", "g">>, <<"a", ",", " ", "a", " ", ",", "a">>}
    \cup UNION {Wrapped(s, MaxDepth) : s \in {<<"a">>, <<"#", "i">>, <<"#", "x">>}}

\* The values a parse function is given: the strings of an attribute and
\* what setAttribute is called with.
RawValues ==
  {Str(s) : s \in RawStrings}
    \cup {Num(n) : n \in (0 - MaxInt)..MaxInt}
    \cup {Undefined, Null, Bool(TRUE), Bool(FALSE), Img, Canvas,
          Obj("raw", [x |-> Num(0)]), Arr("raw", <<>>), Arr("raw", <<Num(1), Num(2)>>),
          Arr("raw", <<Str(<<"a">>)>>)}

\* The second operand of a comparison.
Partners ==
  {Str(<<>>), Str(<<"a">>), Str(<<"a", ",">>), Str(<<"a", ",", "a">>), Str(<<"1">>),
   Str(<<"#", "i">>), Num(1), NaN, Null, Bool(FALSE), Img,
   Arr("raw", <<>>), Arr("raw", <<Str(<<"a">>)>>), Arr("other", <<Num(1), Num(2)>>)}

\* The objects a default value of a vector type can be: any fields among x,
\* y, z, w and v, each a number, NaN or a string.
VecObjects ==
  {Obj("raw", f) :
     f \in UNION {[names -> {Num(0), NaN, Str(<<"0">>)}] :
                    names \in SUBSET {"x", "y", "z", "w", "v"}}}

TypeNames == {BuiltIns[i][1] : i \in 1..Len(BuiltIns)}

\* The arguments of a call with one argument: a value of the type, a raw
\* value, or (for a vector type) an object.
Values(type) ==
  RawValues
    \cup (IF type \in CodecTypes THEN InternalValues(type) ELSE {})
    \cup (IF type \in {"vec2", "vec3", "vec4"}
          THEN VecObjects \cup {propertyTypes[type].default} ELSE {})

\* The module is loaded and a function of it is about to be called with a
\* type name and one or two values.
InitCodec ==
  /\ Constructed(Data, <<>>)
  /\ propertyTypes = BuiltInTypes
  /\ \E type \in TypeNames \cup {"custom"} :
       \/ \E v \in Values(type) :
            call = [NoCall EXCEPT !.type = type, !.args = <<v>>]
       \/ /\ type \in CodecTypes
          /\ \E v \in RawValues, w \in Partners :
               call = [NoCall EXCEPT !.type = type, !.args = <<v, w>>]

RoundTripValue ==
  /\ call.fn = "none" /\ Len(call.args) = 1
  /\ call.type \in CodecTypes /\ call.args[1] \in InternalValues(call.type)
  /\ RoundTrip(call.type, call.args[1])
  /\ UNCHANGED ctlVars

StringifyInternalValue ==
  /\ call.fn = "none" /\ Len(call.args) = 1
  /\ call.type \in CodecTypes /\ call.args[1] \in InternalValues(call.type)
  /\ StringifyValue(call.type, call.args[1])
  /\ UNCHANGED ctlVars

ParseRawValue ==
  /\ call.fn = "none" /\ Len(call.args) = 1
  /\ call.type \in CodecTypes
  /\ ParseValue(call.type, call.args[1])
  /\ UNCHANGED ctlVars

CompareParsedValues ==
  /\ call.fn = "none" /\ Len(call.args) = 2
  /\ CompareValues(call.type, call.args[1], call.args[2])
  /\ UNCHANGED ctlVars

ValidateDefault ==
  /\ call.fn = "none" /\ Len(call.args) = 1
  /\ Validate(call.type, call.args[1])
  /\ UNCHANGED ctlVars

NextCodec ==
  \/ RoundTripValue
  \/ StringifyInternalValue
  \/ ParseRawValue
  \/ CompareParsedValues
  \/ ValidateDefault

SpecCodec == InitCodec /\ [][NextCodec]_vars

(***************************************************************************)
(* Properties of the button / axis state machine.                          *)
(***************************************************************************)
\* The last handler was a tick that went through the buttons and axes of a
\* gamepad: a processed tick.
Processed == op.name = "tick" /\ op.ran = "buttons"

\* The button indices present on the gamepad the tick read.
Present(o) == 0..(Len(o.gamepad.buttons) - 1)

\* The stored state of index i; an index not seen so far starts released.
Stored(states, i) ==
  IF i \in DOMAIN states THEN states[i]
  ELSE [pressed |-> FALSE, touched |-> FALSE, value |-> 0]

\* The names of the events of log that carry the button index i, in order.
NamesOf(log, i) ==
  LET idx == {k \in 1..Len(log) : log[k].id = i}
      Nth(n) == CHOOSE k \in idx : Cardinality({j \in idx : j < k}) = n - 1
  IN [n \in 1..Cardinality(idx) |-> log[Nth(n)].name]

\* How many events of log have the given name and button index.
Count(log, name, i) == Cardinality({k \in 1..Len(log) : log[k].name = name /\ log[k].id = i})

\* C1: in a processed tick, a button whose pressed and touched both differ
\* from the stored state emits buttondown or buttonup, then touchstart or
\* touchend, then one buttonchanged, and nothing else, whatever the
\* directions and whether or not the value changed.
C1_PressTouchChangedOrder ==
  [][Processed' =>
       \A i \in Present(op') :
         LET old == Stored(buttonStates, i)
             new == op'.gamepad.buttons[i + 1]
         IN (new.pressed # old.pressed /\ new.touched # old.touched) =>
              NamesOf(emitted', i) =
                <<IF new.pressed THEN "buttondown" ELSE "buttonup",
                  IF new.touched THEN "touchstart" ELSE "touchend",
                  "buttonchanged">>]_vars

\* A tick released a button that became touched, its value unchanged.
C1_Witness ==
  /\ Processed
  /\ NamesOf(emitted, 0) = <<"buttonup", "touchstart", "buttonchanged">>
  /\ emitted[1].state.value = op.gamepad.buttons[1].value

\* C2: in a processed tick every button present emits buttonchanged once
\* when pressed, touched or value differs from the stored state and never
\* otherwise; a change of the value alone emits buttonchanged and nothing
\* else.
C2_ButtonChangedOnce ==
  [][Processed' =>
       \A i \in Present(op') :
         LET old == Stored(buttonStates, i)
             new == op'.gamepad.buttons[i + 1]
             differs == \/ new.pressed # old.pressed
                        \/ new.touched # old.touched
                        \/ new.value # old.value
         IN /\ Count(emitted', "buttonchanged", i) = IF differs THEN 1 ELSE 0
            /\ (new.pressed = old.pressed /\ new.touched = old.touched
                /\ new.value # old.value)
                 => NamesOf(emitted', i) = <<"buttonchanged">>]_vars

\* A tick in which only the value of button 0 changed, while it was pressed.
C2_Witness ==
  /\ Processed
  /\ NamesOf(emitted, 0) = <<"buttonchanged">>
  /\ op.gamepad.buttons[1].pressed

\* Whether the events of log, received after held, alternate for every
\* index: startName only for an index not in held, endName only for one in it.
RECURSIVE Alternates(_, _, _, _)
Alternates(held, log, startName, endName) ==
  IF log = <<>> THEN TRUE
  ELSE LET e == Head(log)
       IN /\ e.name = startName => e.id \notin held
          /\ e.name = endName => e.id \in held
          /\ Alternates(Received(held, <<e>>, startName, endName), Tail(log),
                        startName, endName)

\* C3: over any sequence of ticks and re-resolutions, the buttondown and
\* buttonup events of an index alternate, starting with buttondown, and so
\* do its touchstart and touchend events, starting with touchstart.
C3_EventsAlternate ==
  [][/\ Alternates(lastDown, emitted', "buttondown", "buttonup")
     /\ Alternates(lastTouched, emitted', "touchstart", "touchend")]_vars

\* A tick released button 1 and ended its touch, button 0 staying down.
C3_Witness ==
  /\ Processed
  /\ NamesOf(emitted, 1) = <<"buttonup", "touchend", "buttonchanged">>
  /\ lastDown = {0}
  /\ controller = LeftPad

\* C4: in a processed tick every component of the controller's axes is
\* compared with the stored vector. When none differs no axismove is emitted
\* and the stored vector is unchanged; when one differs a single axismove is
\* emitted, the stored vector becomes the new vector, and the changed vector
\* holds one boolean per new component, true exactly where it differed.
C4_AxesDiff ==
  [][Processed' =>
       LET new == op'.gamepad.axes
           differs == [i \in 1..Len(new) |-> i > Len(axis) \/ axis[i] # new[i]]
           moves == {k \in 1..Len(emitted') : emitted'[k].name = "axismove"}
       IN IF \A i \in 1..Len(new) : ~differs[i]
          THEN moves = {} /\ axis' = axis
          ELSE /\ Cardinality(moves) = 1
               /\ axis' = new
               /\ \A k \in moves : /\ emitted'[k].axis = new
                                   /\ emitted'[k].changed = differs]_vars

\* A tick moved the first of two axes only.
C4_Witness ==
  /\ Processed
  /\ \E k \in 1..Len(emitted) : /\ emitted[k].name = "axismove"
                                /\ emitted[k].changed = <<TRUE, FALSE>>
                                /\ emitted[k].axis = <<1, 0>>

\* C5: after a processed tick the stored state of every button present on
\* the gamepad equals the snapshot the tick read.
C5_StoredIsSnapshot ==
  Processed =>
    \A i \in Present(op) :
      /\ i \in DOMAIN buttonStates
      /\ buttonStates[i] = op.gamepad.buttons[i + 1]

\* A tick after which button 0 is stored pressed, untouched, with value 0,
\* none of its events being emitted by that tick but buttonchanged.
C5_Witness ==
  /\ Processed
  /\ buttonStates[0] = [pressed |-> TRUE, touched |-> FALSE, value |-> 0]
  /\ NamesOf(emitted, 0) = <<"buttonchanged">>

\* C6: a tick without a bound controller, without a frame, without a
\* reference space or with a controller that carries a hand emits nothing
\* and changes nothing but the visibility flag.
C6_SkippedTick ==
  [][(/\ op'.name = "tick"
      /\ \/ controller = NoController
         \/ ~op'.frame
         \/ ~op'.referenceSpace
         \/ controller.hand)
       => /\ emitted' = <<>>
          /\ UNCHANGED <<buttonStates, axis, changedAxes, controller, data, pose,
                         listening, sysControllers, lastDown, lastTouched>>]_vars

\* A tick without a frame, a pad being bound whose button 0 is stored pressed
\* and whose pose was read before.
C6_Witness ==
  /\ op.name = "tick"
  /\ ~op.frame
  /\ op.referenceSpace
  /\ controller = LeftPad
  /\ pose # NoPose
  /\ 0 \in DOMAIN buttonStates
  /\ buttonStates[0].pressed

\* C7: the events of one tick come in ascending order of the button index,
\* and axismove comes after all the button events.
C7_AscendingIndexOrder ==
  \A k \in 1..Len(emitted) : \A l \in 1..Len(emitted) :
    k < l =>
      /\ emitted[k].name # "axismove"
      /\ emitted[l].name # "axismove" => emitted[k].id <= emitted[l].id

\* A tick emitted events of button 0, of button 1 and an axismove.
C7_Witness ==
  /\ Processed
  /\ Len(NamesOf(emitted, 0)) = 3
  /\ Len(NamesOf(emitted, 1)) = 3
  /\ emitted[Len(emitted)].name = "axismove"

\* C8: after every processed tick the stored axis vector has as many
\* components as the gamepad reports axes.
C8_AxisLength == Processed => Len(axis) = Len(op.gamepad.axes)

(***************************************************************************)
(* Properties of the registry and of the built-in types.                   *)
(***************************************************************************)
\* C9: a call of registerPropertyType with a name that is already in the
\* registry throws an error and leaves the registry as it was: every name
\* keeps its descriptor and no name is added.
C9_DuplicateRegistration ==
  [][(call'.fn = "registerPropertyType" /\ call'.type \in DOMAIN propertyTypes)
       => /\ call'.out = <<Thrown("Error")>>
          /\ propertyTypes' = propertyTypes]_vars

\* The type "custom", registered after the module was loaded, was registered
\* again with another default value: the call threw.
C9_Witness ==
  /\ call.fn = "registerPropertyType"
  /\ call.type = "custom"
  /\ call.out = <<Thrown("Error")>>
  /\ "custom" \in DOMAIN propertyTypes
  /\ propertyTypes["custom"].default # call.args[1]
  /\ "other" \in DOMAIN propertyTypes

\* C10: for every built-in type and every value x of the type,
\* parse(stringify(x)) equals x under the equals of the type.
C10_RoundTrip ==
  call.fn = "roundtrip" => call.out[3] = Bool(TRUE)

\* The types that parse as an asset.
AssetFamily == {"audio", "asset", "map", "model", "src"}

\* A string that begins with '#'.
BeginsWithHash(v) == v.k = "string" /\ v.s # <<>> /\ Head(v.s) = "#"

\* C11: for boolean, int, time, number, string, color, array, and for the
\* asset family as long as no '#id' is looked up in the document, parsing a
\* parsed value returns it unchanged: parse(parse(v)) = parse(v), also for
\* url(...) wrappers one inside the other.
C11_ParseIdempotent ==
  (/\ call.fn = "parse"
   /\ \/ call.type \in {"boolean", "int", "time", "number", "string", "color", "array"}
      \/ /\ call.type \in AssetFamily
         /\ ~BeginsWithHash(call.args[1])
         /\ ~BeginsWithHash(call.out[1]))
    => call.out[2] = call.out[1]

\* A string '#id', id being the id of no element of the document.
MissingId(v) ==
  /\ BeginsWithHash(v) /\ Len(v.s) > 1
  /\ ~NonCharTest(v.s) /\ ~UrlMatches(v.s)
  /\ GetElementById(Tail(v.s)) = Null

\* C12: assetParse and selectorParse, given '#id' where no element has the
\* id, log a warning and return undefined; they do not throw.
C12_LookupMiss ==
  (/\ call.fn = "parse"
   /\ call.type \in AssetFamily \cup {"selector"}
   /\ MissingId(call.args[1]))
    => /\ call.out[1] = Undefined
       /\ call.warned # <<>>

\* The fields of a vector of a type.
VecFields(type) ==
  CASE type = "vec2" -> {"x", "y"}
    [] type = "vec3" -> {"x", "y", "z"}
    [] type = "vec4" -> {"x", "y", "z", "w"}

\* A finite number.
Finite(v) == v.k = "number"

\* C13: isValidDefaultValue of vec2, vec3 and vec4 accepts a value exactly
\* when it is null or a record of exactly the fields of the type, each a
\* finite number.
C13_VecDefault ==
  (call.fn = "isValidDefaultValue" /\ call.type \in {"vec2", "vec3", "vec4"})
    => (call.out[1] = Bool(TRUE)
          <=> \/ call.args[1] = Null
              \/ /\ call.args[1].k = "object"
                 /\ DOMAIN call.args[1].f = VecFields(call.type)
                 /\ \A name \in VecFields(call.type) : Finite(call.args[1].f[name]))

\* The types whose equals is arrayEquals.
ArrayEqualsTypes == {"array", "selectorAll"}

\* C14: the equals of every built-in type is reflexive and symmetric over
\* the values its parse returns; arrayEquals of two arrays is true exactly
\* when they have the same length and the same elements, and is identity
\* when an operand is not an array.
C14_EqualsRelation ==
  call.fn = "equals"
    => LET a == call.out[1]
           b == call.out[2]
       IN /\ call.out[5] = Bool(TRUE)
          /\ call.out[3] = call.out[4]
          /\ call.type \in ArrayEqualsTypes
               => IF a.k = "array" /\ b.k = "array"
                  THEN call.out[3] = Bool(a.a = b.a)
                  ELSE call.out[3] = Bool(StrictEquals(a, b))

\* The positions of the commas of s, with 0 before them and Len(s) + 1 after.
Cuts(s) == Ascending({0, Len(s) + 1} \cup {i \in 1..Len(s) : s[i] = ","})

\* The i-th segment of s between commas, without the spaces around it.
Segment(s, i) == Trim(SubSeq(s, Cuts(s)[i] + 1, Cuts(s)[i + 1] - 1))

\* What the claim says of arrayParse for the strings of the set.
ArrayParseOf(strings) ==
  (call.fn = "parse" /\ call.type = "array")
    => LET v == call.args[1]
           r == call.out[1]
       IN IF v.k = "array" THEN r = v
          ELSE IF v.k = "string" /\ v.s \in strings
          THEN /\ r.k = "array"
               /\ Len(r.a) = Len(Cuts(v.s)) - 1
               /\ \A i \in 1..Len(r.a) : r.a[i] = Str(Segment(v.s, i))
          ELSE r.k = "array" /\ r.a = <<>>

\* C15 as stated: arrayParse returns an array as it is, splits a string on
\* its commas into trimmed segments, one element for each, and returns the
\* empty array for any other input.
C15_ArrayParse == ArrayParseOf(RawStrings)

\* C15 as amended: arrayParse returns an array as it is, splits a string
\* that is not empty on its commas into trimmed segments, one element for
\* each, and returns the empty array for the empty string and for any other
\* input.
C15_ArrayParseNonEmpty == ArrayParseOf(RawStrings \ {<<>>})

\* A string with two commas and spaces around a segment was parsed into
\* three elements.
C15_Witness ==
  /\ call.fn = "parse" /\ call.type = "array"
  /\ call.args[1].k = "string"
  /\ Len(call.out[1].a) = 3
  /\ \E i \in 1..3 : call.out[1].a[i] = Str(<<"a">>)
  /\ \E i \in 1..Len(call.args[1].s) : call.args[1].s[i] = " "

DescriptorOf(args) ==
  [default |-> args[1],
   parse |-> IF args[2] = Undefined THEN Fn("defaultParse") ELSE args[2],
   stringify |-> IF args[3] = Undefined THEN Fn("defaultStringify") ELSE args[3],
   equals |-> IF args[4] = Undefined THEN Fn("defaultEquals") ELSE args[4],
   isCacheable |-> args[5] # Bool(FALSE)]

C18_ResolvedEachTick ==
  Processed => controller = updateController(sysControllers, data)

\* C19: the state an event carries is the stored state at the moment the
\* event is emitted: for buttondown and buttonup the state before the tick,
\* for touchstart and touchend that state with the new pressed, for
\* buttonchanged the snapshot the tick read.
C19_StateAtEmit ==
  [][(op'.name = "tick" /\ op'.ran = "buttons")
       => \A k \in 1..Len(emitted') :
            LET e == emitted'[k]
                old == Stored(buttonStates, e.id)
                new == op'.gamepad.buttons[e.id + 1]
            IN /\ e.name \in {EVENTS.BUTTONDOWN, EVENTS.BUTTONUP} => e.state = old
               /\ e.name \in {EVENTS.TOUCHSTART, EVENTS.TOUCHEND}
                    => e.state = [old EXCEPT !.pressed = new.pressed]
               /\ e.name = EVENTS.BUTTONCHANGED => e.state = new]_vars

\* A tick pressed and touched button 0 and raised its value: buttondown
\* carries the released state, touchstart the pressed and untouched state,
\* buttonchanged the snapshot.
C19_Witness ==
  /\ Processed
  /\ Len(emitted) >= 3
  /\ emitted[1].name = "buttondown" /\ emitted[1].id = 0
  /\ emitted[1].state = [pressed |-> FALSE, touched |-> FALSE, value |-> 0]
  /\ emitted[2].name = "touchstart"
  /\ emitted[2].state = [pressed |-> TRUE, touched |-> FALSE, value |-> 0]
  /\ emitted[3].name = "buttonchanged"
  /\ emitted[3].state = [pressed |-> TRUE, touched |-> TRUE, value |-> MaxValue]

\* 1 if the condition holds, 0 if not.
OneIf(condition) == IF condition THEN 1 ELSE 0

\* C20: a button state is created by the first processed tick in which its
\* index is on the gamepad, as {pressed: false, touched: false, value: 0},
\* and no handler removes or resets it: update, play, pause, the controllers
\* changing and a tick that is skipped leave every entry as it is, and a
\* processed tick diffs every index on the gamepad against the entry it
\* finds, whichever controller left it.
C20_EntriesPersist ==
  [][/\ DOMAIN buttonStates \subseteq DOMAIN buttonStates'
     /\ ~(op'.name = "tick" /\ op'.ran = "buttons") => buttonStates' = buttonStates
     /\ (op'.name = "tick" /\ op'.ran = "buttons")
          => /\ DOMAIN buttonStates' = DOMAIN buttonStates \cup Present(op')
             /\ \A i \in DOMAIN buttonStates \ Present(op') :
                  buttonStates'[i] = buttonStates[i]
             /\ \A i \in Present(op') :
                  LET old == IF i \in DOMAIN buttonStates THEN buttonStates[i]
                             ELSE [pressed |-> FALSE, touched |-> FALSE, value |-> 0]
                      new == op'.gamepad.buttons[i + 1]
                  IN /\ Count(emitted', EVENTS.BUTTONDOWN, i)
                          = OneIf(new.pressed /\ ~old.pressed)
                     /\ Count(emitted', EVENTS.BUTTONUP, i)
                          = OneIf(~new.pressed /\ old.pressed)
                     /\ Count(emitted', EVENTS.TOUCHSTART, i)
                          = OneIf(new.touched /\ ~old.touched)
                     /\ Count(emitted', EVENTS.TOUCHEND, i)
                          = OneIf(~new.touched /\ old.touched)
                     /\ Count(emitted', EVENTS.BUTTONCHANGED, i) = OneIf(new # old)]_vars

\* The component is paused and bound to the trigger, after a pad was: the
\* entry of button 1, which only the pad has, is still stored pressed, and
\* the tick emitted buttonup for button 0, which the pad left pressed and
\* the trigger reports released.
C20_Witness ==
  /\ Processed
  /\ controller = LeftTrigger
  /\ ~listening
  /\ 1 \in DOMAIN buttonStates /\ buttonStates[1].pressed
  /\ Count(emitted, EVENTS.BUTTONUP, 0) = 1

\* C21: a tick taken with autoHide true leaves the entity visible exactly
\* when a controller is bound, also when it is skipped for lack of a frame
\* or of a reference space; a tick taken with autoHide false leaves the
\* visibility as it was.
C21_AutoHide ==
  [][op'.name = "tick"
       => IF data.autoHide THEN visible' = (controller # NoController)
          ELSE visible' = visible]_vars

\* A tick without a frame, taken with autoHide false and the trigger bound,
\* left the entity hidden: an earlier tick, taken with autoHide true and no
\* controller bound, had hidden it.
C21_Witness ==
  /\ op.name = "tick" /\ op.ran = "skipped" /\ ~op.frame
  /\ ~data.autoHide
  /\ controller = LeftTrigger
  /\ ~visible

\* C22: stringify of the registered default of a built-in type returns a
\* string and throws no error; for the null default of selector and of
\* selectorAll it returns "null".
C22_StringifyDefault ==
  (call.fn = "stringify" /\ call.args[1] = propertyTypes[call.type].default)
    => /\ call.out[1].k = "string"
       /\ call.type \in {"selector", "selectorAll"}
            => call.out[1] = Str(<<"n", "u", "l", "l">>)

\* C23: isValidDefaultValue accepts the registered default of each of the
\* 17 built-in types for the name of that type, and accepts every value for
\* a name that is not the name of a built-in type.
C23_DefaultsValid ==
  /\ Cardinality(TypeNames) = 17
  /\ call.fn = "isValidDefaultValue"
       => /\ (call.type \in TypeNames /\ call.args[1] = propertyTypes[call.type].default)
               => call.out[1] = Bool(TRUE)
          /\ call.type \notin TypeNames => call.out[1] = Bool(TRUE)

\* The null default of selector was validated for the type selector and
\* accepted.
C23_Witness ==
  /\ call.fn = "isValidDefaultValue"
  /\ call.type = "selector"
  /\ call.args[1] = Null /\ propertyTypes["selector"].default = Null
  /\ call.out[1] = Bool(TRUE)

=============================================================================
